---- MODULE Spec2Model ----
(***************************************************************************)
(* Model of src/train.py, the training driver of CS-Tacotron-Pytorch.      *)
(*                                                                         *)
(* The specifications of this module:                                      *)
(*   Spec       the process life cycle: __main__ (fresh start or resume    *)
(*              from a checkpoint), train's epoch / batch loop, the        *)
(*              diagnostic dump, save_checkpoint, KeyboardInterrupt, exit, *)
(*              and the next process started on the same checkpoint        *)
(*              directory;                                                 *)
(*   FairSpec   Spec with weak fairness of train's own steps;              *)
(*   SpecRates  Spec with processes that differ in their learning rate;    *)
(*   SpecBatch  the data path of one iteration: collate_fn on a batch of   *)
(*              samples followed by train's sort by input length;          *)
(*   SpecLR     _learning_rate_decay applied to bounded inputs.            *)
(***************************************************************************)
EXTENDS Integers, Sequences, FiniteSets, TLC

VARIABLES
    \* ---- the process and train()'s position
    pc,                  \* position of the running process
    runs,                \* processes started so far on the checkpoint directory
    \* ---- hparams of the running process
    init_lr,             \* hparams.initial_learning_rate, in units of 1/1000
    nepochs,             \* hparams.nepochs
    checkpoint_interval, \* hparams.checkpoint_interval
    nbatches,            \* batches the data loader yields per pass
    \* ---- module globals and objects of train.py
    global_step,
    global_epoch,
    model,               \* model.state_dict(): how many updates made the weights, and the last one's rate
    optimizer,           \* optimizer.state_dict(): param group lr and Adam's step count
    current_lr,          \* train's local current_lr
    batch_i,             \* batches the for loop has drawn in the current pass
    \* ---- the checkpoint directory
    disk,                \* checkpoint_step<k>.pth files: k -> contents
    dumps,               \* steps k with step<k>_*.png / .wav files
    \* ---- bookkeeping about the running process
    loaded,              \* the checkpoint __main__ loaded ({} when none)
    s0, e0,              \* global_step / global_epoch when train was called
    written,             \* checkpoints this process has written
    nupdates,            \* optimizer.step() calls of this process
    npasses,             \* completed passes over the data loader of this process
    iter_log,            \* what the current iteration has done, in order
    exit_status,         \* status of sys.exit (-1 while running)
    \* ---- the data path (SpecBatch)
    bpc,
    r,                   \* hparams.outputs_per_step
    batch,               \* the samples the loader hands to collate_fn
    x_batch, input_lengths, mel_batch, y_batch,   \* collate_fn's return value
    sorted_lengths, indices,                      \* torch.sort's return value
    x, mel, y            \* the tensors fed to the model and the loss

trainVars == <<pc, runs, init_lr, nepochs, checkpoint_interval, nbatches,
               global_step, global_epoch, model, optimizer, current_lr, batch_i,
               disk, dumps, loaded, s0, e0, written, nupdates, npasses,
               iter_log, exit_status>>
batchVars == <<bpc, r, batch, x_batch, input_lengths, mel_batch, y_batch,
               sorted_lengths, indices, x, mel, y>>
vars == <<trainVars, batchVars>>

-----------------------------------------------------------------------------
(* Bounds of the model *)
MaxRuns == 2        \* processes started one after the other
MaxEpochs == 2      \* nepochs ranges over 1..MaxEpochs
MaxBatches == 2     \* batches per pass range over 1..MaxBatches
MaxInterval == 2    \* checkpoint_interval ranges over 1..MaxInterval
MaxInitLR == 2      \* initial_learning_rate ranges over 1..MaxInitLR (x 1/1000)
MaxStepLR == 6100   \* SpecLR: global_step ranges over 0..MaxStepLR
MaxBatchSize == 2   \* SpecBatch: samples per batch
MaxTextLen == 3     \* SpecBatch: tokens per text
MaxFrames == 3      \* SpecBatch: frames per target
MaxR == 3           \* SpecBatch: outputs_per_step ranges over 1..MaxR

-----------------------------------------------------------------------------
(* Exact arithmetic.  A learning rate is init_lr * sqrt(n/d); the model     *)
(* carries init_lr and the reduced fraction <<n, d>> of the squared factor. *)

Max(a, b) == IF a >= b THEN a ELSE b

RECURSIVE GCD(_, _)
GCD(a, b) == IF b = 0 THEN a ELSE GCD(b, a % b)

Rat(n, d) == LET g == GCD(n, d) IN <<n \div g, d \div g>>

\* a/b < c/d for a, c >= 0 and b, d > 0, by continued fractions: no product
\* is formed, so the comparison is exact for every operand TLC can hold.
RECURSIVE FracLess(_, _, _, _)
FracLess(a, b, c, d) ==
    LET qa == a \div b
        qc == c \div d
        ra == a % b
        rc == c % d
    IN  IF qa # qc THEN qa < qc
        ELSE IF rc = 0 THEN FALSE
        ELSE IF ra = 0 THEN TRUE
        ELSE FracLess(d, rc, b, ra)

RatLess(p, q) == FracLess(p[1], p[2], q[1], q[2])
RatMin(p, q) == IF RatLess(q, p) THEN q ELSE p
RatMax(p, q) == IF RatLess(q, p) THEN p ELSE q

\* Order of two learning rates with the same positive init_lr.
LrLess(a, b) == a.init = b.init /\ a.init > 0 /\ RatLess(a.sq, b.sq)

NoLR == [init |-> 0, sq |-> <<0, 1>>]

-----------------------------------------------------------------------------
(* _learning_rate_decay, train.py 164-169:                                  *)
(*   lr = init_lr * warmup_steps**0.5 *                                     *)
(*        min(step * warmup_steps**-1.5, step**-0.5),  step = global_step+1 *)
(* The positive factor warmup_steps**0.5 is carried into both arguments of  *)
(* the minimum, whose squares are then step^2 / warmup_steps^2 and          *)
(* warmup_steps / step.                                                     *)

warmup_steps == 6000

LrDecayMax(init, gstep) ==
    LET step == gstep + 1
        warm == Rat(step * step, warmup_steps * warmup_steps)
        cool == Rat(warmup_steps, step)
    IN  [init |-> init, sq |-> RatMax(warm, cool)]

_learning_rate_decay(init, gstep) ==
    LET step == gstep + 1
        warm == Rat(step * step, warmup_steps * warmup_steps)
        cool == Rat(warmup_steps, step)
    IN  [init |-> init, sq |-> RatMin(warm, cool)]

-----------------------------------------------------------------------------
(* The data path is idle in Spec, the process is idle in SpecBatch.         *)

BatchIdle ==
    /\ bpc = "idle"
    /\ r = 1
    /\ batch = <<>>
    /\ x_batch = <<>> /\ input_lengths = <<>> /\ mel_batch = <<>> /\ y_batch = <<>>
    /\ sorted_lengths = <<>> /\ indices = <<>>
    /\ x = <<>> /\ mel = <<>> /\ y = <<>>

\* Tacotron(...) of 331-338: weights no update has touched.
FreshModel == [updates |-> 0, lr |-> NoLR]

\* optim.Adam(..., lr=hparams.initial_learning_rate, ...) of 341-344.
FreshOptimizer(lr0) == [lr |-> [init |-> lr0, sq |-> <<1, 1>>], t |-> 0]

TrainIdle ==
    /\ pc = "idle"
    /\ runs = 0
    /\ init_lr = 1 /\ nepochs = 1 /\ checkpoint_interval = 1 /\ nbatches = 1
    /\ global_step = 0 /\ global_epoch = 0
    /\ model = FreshModel
    /\ optimizer = FreshOptimizer(1)
    /\ current_lr = NoLR
    /\ batch_i = 0
    /\ disk = <<>>
    /\ dumps = {}
    /\ loaded = {}
    /\ s0 = 0 /\ e0 = 0
    /\ written = {}
    /\ nupdates = 0 /\ npasses = 0
    /\ iter_log = <<>>
    /\ exit_status = -1

-----------------------------------------------------------------------------
(* Spec: the process life cycle.                                            *)

\* Positions inside train(), where a KeyboardInterrupt can arrive.
TrainPCs == {"while", "for", "decay", "forward", "save_states",
             "save_checkpoint", "update", "incr"}

\* train.py 59-60 and the empty checkpoint directory made at 316; the data
\* set (hence the batches per pass) and checkpoint_interval stay the same
\* for every process started on the directory.  init_lr and nepochs are
\* the hparams a process is started with unless it is given others.
Init ==
    /\ pc = "boot"
    /\ runs = 0
    /\ init_lr \in 1..MaxInitLR
    /\ nepochs \in 1..MaxEpochs
    /\ checkpoint_interval \in 1..MaxInterval
    /\ nbatches \in 1..MaxBatches
    /\ global_step = 0 /\ global_epoch = 0
    /\ model = FreshModel
    /\ optimizer = FreshOptimizer(1)
    /\ current_lr = NoLR
    /\ batch_i = 0
    /\ disk = <<>>
    /\ dumps = {}
    /\ loaded = {}
    /\ s0 = 0 /\ e0 = 0
    /\ written = {}
    /\ nupdates = 0 /\ npasses = 0
    /\ iter_log = <<>>
    /\ exit_status = -1
    /\ BatchIdle

\* What every new process starts from (module level of train.py, 59-60,
\* and __main__ 305-344), before a checkpoint is loaded.
NewProcess(lr0, ne) ==
    /\ pc \in {"boot", "exit"}
    /\ runs < MaxRuns
    /\ runs' = runs + 1
    /\ init_lr' = lr0
    /\ nepochs' = ne
    /\ current_lr' = NoLR
    /\ batch_i' = 0
    /\ written' = {}
    /\ nupdates' = 0 /\ npasses' = 0
    /\ iter_log' = <<>>
    /\ exit_status' = -1
    /\ pc' = "main"
    /\ s0' = 0 /\ e0' = 0
    /\ UNCHANGED <<checkpoint_interval, nbatches, disk, dumps>>

\* __main__ without --checkpoint-path.
StartFresh(lr0, ne) ==
    /\ NewProcess(lr0, ne)
    /\ global_step' = 0
    /\ global_epoch' = 0
    /\ model' = FreshModel
    /\ optimizer' = FreshOptimizer(lr0)
    /\ loaded' = {}
    /\ UNCHANGED batchVars

\* __main__ with --checkpoint-path naming checkpoint_step<k>.pth, 347-357,
\* with the step and the epoch read from each other's key.
ResumeSwapped(k, lr0, ne) ==
    /\ k \in DOMAIN disk
    /\ NewProcess(lr0, ne)
    /\ LET checkpoint == disk[k] IN
        /\ model' = checkpoint.state_dict
        /\ optimizer' = checkpoint.optimizer
        /\ global_step' = checkpoint.global_epoch
        /\ global_epoch' = checkpoint.global_step
        /\ loaded' = {checkpoint}
    /\ UNCHANGED batchVars

\* __main__ with --checkpoint-path naming checkpoint_step<k>.pth, 347-357.
Resume(k, lr0, ne) ==
    /\ k \in DOMAIN disk
    /\ NewProcess(lr0, ne)
    /\ LET checkpoint == disk[k] IN
        /\ model' = checkpoint.state_dict
        /\ optimizer' = checkpoint.optimizer
        /\ global_step' = checkpoint.global_step
        /\ global_epoch' = checkpoint.global_epoch
        /\ loaded' = {checkpoint}
    /\ UNCHANGED batchVars

\* __main__ 365-372: the call of train.
CallTrain ==
    /\ pc = "main"
    /\ pc' = "while"
    /\ s0' = global_step
    /\ e0' = global_epoch
    /\ UNCHANGED <<runs, init_lr, nepochs, checkpoint_interval, nbatches,
                   global_step, global_epoch, model, optimizer, current_lr,
                   batch_i, disk, dumps, loaded, written, nupdates, npasses,
                   iter_log, exit_status>>
    /\ UNCHANGED batchVars

\* train 219 with <= in place of <.
WhileInclusive ==
    /\ pc = "while"
    /\ IF global_epoch <= nepochs
          THEN pc' = "for" /\ batch_i' = 0
          ELSE pc' = "returned" /\ UNCHANGED batch_i
    /\ UNCHANGED <<runs, init_lr, nepochs, checkpoint_interval, nbatches,
                   global_step, global_epoch, model, optimizer, current_lr,
                   disk, dumps, loaded, s0, e0, written, nupdates, npasses,
                   iter_log, exit_status>>
    /\ UNCHANGED batchVars

\* train 219: while global_epoch < nepochs.
While ==
    /\ pc = "while"
    /\ IF global_epoch < nepochs
          THEN pc' = "for" /\ batch_i' = 0
          ELSE pc' = "returned" /\ UNCHANGED batch_i
    /\ UNCHANGED <<runs, init_lr, nepochs, checkpoint_interval, nbatches,
                   global_step, global_epoch, model, optimizer, current_lr,
                   disk, dumps, loaded, s0, e0, written, nupdates, npasses,
                   iter_log, exit_status>>
    /\ UNCHANGED batchVars

\* train 222 and 289: the for loop draws the next batch, or the pass is over
\* and global_epoch += 1.
For ==
    /\ pc = "for"
    /\ IF batch_i < nbatches
          THEN /\ batch_i' = batch_i + 1
               /\ iter_log' = <<>>
               /\ pc' = "decay"
               /\ UNCHANGED <<global_epoch, npasses>>
          ELSE /\ global_epoch' = global_epoch + 1
               /\ npasses' = npasses + 1
               /\ pc' = "while"
               /\ UNCHANGED <<batch_i, iter_log>>
    /\ UNCHANGED <<runs, init_lr, nepochs, checkpoint_interval, nbatches,
                   global_step, model, optimizer, current_lr, disk, dumps,
                   loaded, s0, e0, written, nupdates, exit_status>>
    /\ UNCHANGED batchVars

\* train 224 alone: current_lr is computed, the param groups keep their lr.
DecayNotApplied ==
    /\ pc = "decay"
    /\ current_lr' = _learning_rate_decay(init_lr, global_step)
    /\ pc' = "forward"
    /\ UNCHANGED <<runs, init_lr, nepochs, checkpoint_interval, nbatches,
                   global_step, global_epoch, model, optimizer, batch_i, disk,
                   dumps, loaded, s0, e0, written, nupdates, npasses, iter_log,
                   exit_status>>
    /\ UNCHANGED batchVars

\* train 223-228: decay the learning rate of every param group.
Decay ==
    /\ pc = "decay"
    /\ current_lr' = _learning_rate_decay(init_lr, global_step)
    /\ optimizer' = [optimizer EXCEPT !.lr = current_lr']
    /\ iter_log' = Append(iter_log, "lr")
    /\ pc' = "forward"
    /\ UNCHANGED <<runs, init_lr, nepochs, checkpoint_interval, nbatches,
                   global_step, global_epoch, model, batch_i, disk, dumps,
                   loaded, s0, e0, written, nupdates, npasses, exit_status>>
    /\ UNCHANGED batchVars

\* train 252 with >= in place of >.
ShouldCheckpointFromZero ==
    global_step >= 0 /\ global_step % checkpoint_interval = 0

\* train 252.
ShouldCheckpoint ==
    global_step > 0 /\ global_step % checkpoint_interval = 0

\* train 230-252: sort, forward pass, loss, and the test of line 252.
Forward ==
    /\ pc = "forward"
    /\ pc' = IF ShouldCheckpoint THEN "save_states" ELSE "update"
    /\ UNCHANGED <<runs, init_lr, nepochs, checkpoint_interval, nbatches,
                   global_step, global_epoch, model, optimizer, current_lr,
                   batch_i, disk, dumps, loaded, s0, e0, written, nupdates,
                   npasses, iter_log, exit_status>>
    /\ UNCHANGED batchVars

\* train 253-255 and save_states 172-203: the files step<global_step>_*.
SaveStates ==
    /\ pc = "save_states"
    /\ dumps' = dumps \cup {global_step}
    /\ iter_log' = Append(iter_log, "save_states")
    /\ pc' = "save_checkpoint"
    /\ UNCHANGED <<runs, init_lr, nepochs, checkpoint_interval, nbatches,
                   global_step, global_epoch, model, optimizer, current_lr,
                   batch_i, disk, loaded, s0, e0, written, nupdates, npasses,
                   exit_status>>
    /\ UNCHANGED batchVars

\* save_checkpoint storing the step that follows the one it was handed.
SaveCheckpointNextStep(m, o, step, epoch) ==
    [name |-> global_step,
     data |-> [state_dict |-> m, optimizer |-> o,
               global_step |-> step + 1, global_epoch |-> epoch]]

\* save_checkpoint 292-301: the file is named after the module global
\* global_step (294), its contents hold the parameters step and epoch.
save_checkpoint(m, o, step, epoch) ==
    [name |-> global_step,
     data |-> [state_dict |-> m, optimizer |-> o,
               global_step |-> step, global_epoch |-> epoch]]

\* torch.save to a path: a file of that name is replaced.
WriteFile(d, name, data) ==
    [k \in DOMAIN d \cup {name} |-> IF k = name THEN data ELSE d[k]]

\* train 256-257.
SaveCheckpoint ==
    /\ pc = "save_checkpoint"
    /\ LET f == save_checkpoint(model, optimizer, global_step, global_epoch) IN
        /\ disk' = WriteFile(disk, f.name, f.data)
        /\ written' = written \cup {f}
    /\ iter_log' = Append(iter_log, "save_checkpoint")
    /\ pc' = "update"
    /\ UNCHANGED <<runs, init_lr, nepochs, checkpoint_interval, nbatches,
                   global_step, global_epoch, model, optimizer, current_lr,
                   batch_i, dumps, loaded, s0, e0, nupdates, npasses,
                   exit_status>>
    /\ UNCHANGED batchVars

\* train 259-270: backward, clipping, optimizer.step with the param group's
\* lr, and the log of current_lr.
Update ==
    /\ pc = "update"
    /\ model' = [updates |-> model.updates + 1, lr |-> optimizer.lr]
    /\ optimizer' = [optimizer EXCEPT !.t = optimizer.t + 1]
    /\ nupdates' = nupdates + 1
    /\ iter_log' = Append(iter_log, "update")
    /\ pc' = "incr"
    /\ UNCHANGED <<runs, init_lr, nepochs, checkpoint_interval, nbatches,
                   global_step, global_epoch, current_lr, batch_i, disk, dumps,
                   loaded, s0, e0, written, npasses, exit_status>>
    /\ UNCHANGED batchVars

\* train 281: global_step += 1; the iteration is complete.
Incr ==
    /\ pc = "incr"
    /\ global_step' = global_step + 1
    /\ iter_log' = Append(iter_log, "incr")
    /\ pc' = "for"
    /\ UNCHANGED <<runs, init_lr, nepochs, checkpoint_interval, nbatches,
                   global_epoch, model, optimizer, current_lr, batch_i, disk,
                   dumps, loaded, s0, e0, written, nupdates, npasses,
                   exit_status>>
    /\ UNCHANGED batchVars

\* The handler of 373-376 with the save_checkpoint call of 375-376 live.
InterruptSaving ==
    /\ pc \in TrainPCs
    /\ pc' = "interrupted"
    /\ LET f == save_checkpoint(model, optimizer, global_step, global_epoch) IN
        /\ disk' = WriteFile(disk, f.name, f.data)
        /\ written' = written \cup {f}
    /\ UNCHANGED <<runs, init_lr, nepochs, checkpoint_interval, nbatches,
                   global_step, global_epoch, model, optimizer, current_lr,
                   batch_i, dumps, loaded, s0, e0, nupdates, npasses,
                   iter_log, exit_status>>
    /\ UNCHANGED batchVars

\* A KeyboardInterrupt raised inside train, caught at 373-374, where the
\* handler does nothing (the save_checkpoint call of 375-376 is a comment).
Interrupt ==
    /\ pc \in TrainPCs
    /\ pc' = "interrupted"
    /\ UNCHANGED <<runs, init_lr, nepochs, checkpoint_interval, nbatches,
                   global_step, global_epoch, model, optimizer, current_lr,
                   batch_i, disk, dumps, loaded, s0, e0, written, nupdates,
                   npasses, iter_log, exit_status>>
    /\ UNCHANGED batchVars

\* __main__ 378-379: print("Finished"); sys.exit(0).
Finish ==
    /\ pc \in {"returned", "interrupted"}
    /\ pc' = "exit"
    /\ exit_status' = 0
    /\ UNCHANGED <<runs, init_lr, nepochs, checkpoint_interval, nbatches,
                   global_step, global_epoch, model, optimizer, current_lr,
                   batch_i, disk, dumps, loaded, s0, e0, written, nupdates,
                   npasses, iter_log>>
    /\ UNCHANGED batchVars

TrainStep ==
    \/ While
    \/ For
    \/ Decay
    \/ Forward
    \/ SaveStates
    \/ SaveCheckpoint
    \/ Update
    \/ Incr

\* Spec: every process is started with its own nepochs (--hparams) and
\* the learning rate of the first.
Next ==
    \/ \E ne \in 1..MaxEpochs : StartFresh(init_lr, ne)
    \/ \E k \in DOMAIN disk, ne \in 1..MaxEpochs : Resume(k, init_lr, ne)
    \/ CallTrain
    \/ TrainStep
    \/ Interrupt
    \/ Finish

Spec == Init /\ [][Next]_vars

\* train runs on once called: the interpreter keeps executing its next
\* statement.  A KeyboardInterrupt may or may not arrive.
FairSpec == Spec /\ WF_vars(CallTrain \/ TrainStep)

\* SpecRates: every process is started with its own initial_learning_rate
\* (--hparams) and makes one pass over the data.
InitRates == Init /\ nepochs = 1

NextRates ==
    \/ \E lr0 \in 1..MaxInitLR : StartFresh(lr0, nepochs)
    \/ \E k \in DOMAIN disk, lr0 \in 1..MaxInitLR : Resume(k, lr0, nepochs)
    \/ CallTrain
    \/ TrainStep
    \/ Interrupt
    \/ Finish

SpecRates == InitRates /\ [][NextRates]_vars

-----------------------------------------------------------------------------
(* SpecLR: _learning_rate_decay on bounded inputs.                          *)

InitLR ==
    /\ pc = "lr_input"
    /\ runs = 0
    /\ init_lr \in 1..MaxInitLR
    /\ nepochs = 1 /\ checkpoint_interval = 1 /\ nbatches = 1
    /\ global_step \in 0..MaxStepLR
    /\ global_epoch = 0
    /\ model = FreshModel
    /\ optimizer = FreshOptimizer(init_lr)
    /\ current_lr = NoLR
    /\ batch_i = 0
    /\ disk = <<>>
    /\ dumps = {}
    /\ loaded = {}
    /\ s0 = 0 /\ e0 = 0
    /\ written = {}
    /\ nupdates = 0 /\ npasses = 0
    /\ iter_log = <<>>
    /\ exit_status = -1
    /\ BatchIdle

\* train 224.
ApplyDecay ==
    /\ pc = "lr_input"
    /\ current_lr' = _learning_rate_decay(init_lr, global_step)
    /\ pc' = "lr_done"
    /\ UNCHANGED <<runs, init_lr, nepochs, checkpoint_interval, nbatches,
                   global_step, global_epoch, model, optimizer, batch_i, disk,
                   dumps, loaded, s0, e0, written, nupdates, npasses, iter_log,
                   exit_status>>
    /\ UNCHANGED batchVars

NextLR == ApplyDecay

SpecLR == InitLR /\ [][NextLR]_vars

-----------------------------------------------------------------------------
(* SpecBatch: collate_fn and the sort by length.                            *)

\* A sample of PyTorchDataset (123-124): text ids, mel frames, linear
\* frames.  Every token and every frame of the batch's k-th sample carries
\* k and its position, and none is zero; a frame stands for its row.  The
\* two spectrograms of an utterance have the same number of frames, which
\* collate_fn relies on when it pads both to the length it computes from
\* the mel targets (136, 146, 150).
Sample(k, tl, nframes) ==
    [text |-> [j \in 1..tl |-> 10 * k + j],
     mel  |-> [j \in 1..nframes |-> 100 + 10 * k + j],
     lin  |-> [j \in 1..nframes |-> 200 + 10 * k + j]]

Shapes == {<<tl, nf>> : tl \in 1..MaxTextLen, nf \in 1..MaxFrames}

\* The non-empty batches the loader can draw (batch_size >= 1).
Batches ==
    UNION {{[k \in 1..n |-> Sample(k, f[k][1], f[k][2])] :
               f \in [1..n -> Shapes]} : n \in 1..MaxBatchSize}

RECURSIVE SeqMax(_)
SeqMax(q) == IF Len(q) = 1 THEN q[1] ELSE Max(q[1], SeqMax(Tail(q)))

Zeros(n) == [j \in 1..n |-> 0]

\* _pad 66-68.
_pad(seq, max_len) == seq \o Zeros(max_len - Len(seq))

\* _pad_2d padding with ones.
Pad2dOnes(seq, max_len) == seq \o [j \in 1..(max_len - Len(seq)) |-> 1]

\* _pad_2d 70-73: rows of zeros after the last frame.
_pad_2d(seq, max_len) == seq \o Zeros(max_len - Len(seq))

\* collate_fn 136-139 without the "+ 1" of 136.
MaxTargetLenNoExtra(b, rr) ==
    LET max_target_len == SeqMax([i \in DOMAIN b |-> Len(b[i].mel)])
    IN  IF max_target_len % rr # 0
           THEN max_target_len + (rr - (max_target_len % rr))
           ELSE max_target_len

\* collate_fn 136-139.
MaxTargetLen(b, rr) ==
    LET max_target_len == SeqMax([i \in DOMAIN b |-> Len(b[i].mel)]) + 1
    IN  IF max_target_len % rr # 0
           THEN max_target_len + (rr - (max_target_len % rr))
           ELSE max_target_len

\* collate_fn 130-153.
collate_fn(b, rr) ==
    LET lens == [i \in DOMAIN b |-> Len(b[i].text)]
        max_input_len == SeqMax(lens)
        max_target_len == MaxTargetLen(b, rr)
    IN  [x_batch |-> [i \in DOMAIN b |-> _pad(b[i].text, max_input_len)],
         input_lengths |-> lens,
         mel_batch |-> [i \in DOMAIN b |-> _pad_2d(b[i].mel, max_target_len)],
         y_batch |-> [i \in DOMAIN b |-> _pad_2d(b[i].lin, max_target_len)]]

InitBatch ==
    /\ TrainIdle
    /\ bpc = "batch"
    /\ r \in 1..MaxR
    /\ batch \in Batches
    /\ x_batch = <<>> /\ input_lengths = <<>> /\ mel_batch = <<>> /\ y_batch = <<>>
    /\ sorted_lengths = <<>> /\ indices = <<>>
    /\ x = <<>> /\ mel = <<>> /\ y = <<>>

\* The loader calls collate_fn on the batch (328) and train receives the
\* four tensors (222).
Collate ==
    /\ bpc = "batch"
    /\ LET c == collate_fn(batch, r) IN
        /\ x_batch' = c.x_batch
        /\ input_lengths' = c.input_lengths
        /\ mel_batch' = c.mel_batch
        /\ y_batch' = c.y_batch
    /\ bpc' = "collated"
    /\ UNCHANGED <<r, batch, sorted_lengths, indices, x, mel, y>>
    /\ UNCHANGED trainVars

IsPermutation(p, n) ==
    /\ DOMAIN p = 1..n
    /\ \A i \in 1..n : p[i] \in 1..n
    /\ \A i, j \in 1..n : p[i] = p[j] => i = j

Gather(t, idx) == [i \in DOMAIN idx |-> t[idx[i]]]

\* torch.sort in ascending order.
TorchSortAscending(lengths) ==
    {[values |-> Gather(lengths, p), indices |-> p] :
        p \in {q \in [DOMAIN lengths -> DOMAIN lengths] :
                  /\ IsPermutation(q, Len(lengths))
                  /\ \A i \in 1..(Len(lengths) - 1) :
                        lengths[q[i]] <= lengths[q[i + 1]]}}

\* torch.sort(input_lengths.view(-1), dim=0, descending=True), 231-232:
\* every outcome the sort may return (the order of equal lengths is not
\* specified).
TorchSort(lengths) ==
    {[values |-> Gather(lengths, p), indices |-> p] :
        p \in {q \in [DOMAIN lengths -> DOMAIN lengths] :
                  /\ IsPermutation(q, Len(lengths))
                  /\ \A i \in 1..(Len(lengths) - 1) :
                        lengths[q[i]] >= lengths[q[i + 1]]}}

\* train 230-242: sort by length, index the three tensors, feed the model.
SortAndFeed ==
    /\ bpc = "collated"
    /\ \E s \in TorchSort(input_lengths) :
        /\ sorted_lengths' = s.values
        /\ indices' = s.indices
        /\ x' = Gather(x_batch, s.indices)
        /\ mel' = Gather(mel_batch, s.indices)
        /\ y' = Gather(y_batch, s.indices)
    /\ bpc' = "fed"
    /\ UNCHANGED <<r, batch, x_batch, input_lengths, mel_batch, y_batch>>
    /\ UNCHANGED trainVars

NextBatch ==
    \/ Collate
    \/ SortAndFeed

SpecBatch == InitBatch /\ [][NextBatch]_vars

-----------------------------------------------------------------------------
(* Properties of the data path, under SpecBatch.                            *)

LongestMel == SeqMax([i \in DOMAIN batch |-> Len(batch[i].mel)])

\* row is orig followed by zeros only.
ZeroPadded(row, orig) ==
    /\ Len(row) >= Len(orig)
    /\ SubSeq(row, 1, Len(orig)) = orig
    /\ \A j \in (Len(orig) + 1)..Len(row) : row[j] = 0

\* Every padded mel target and every padded linear target has length T.
CommonLength(T) ==
    \A i \in DOMAIN batch : Len(mel_batch[i]) = T /\ Len(y_batch[i]) = T

TargetsZeroPadded ==
    \A i \in DOMAIN batch :
        /\ ZeroPadded(mel_batch[i], batch[i].mel)
        /\ ZeroPadded(y_batch[i], batch[i].lin)

\* C1 as stated: collate_fn zero-pads every mel and every linear target of
\* the batch to one length T, the smallest multiple of r that is not below
\* the longest mel target length.
C1_NearestMultipleNotBelowLongest ==
    bpc = "collated" =>
        \E T \in 0..(LongestMel + r) :
            /\ CommonLength(T)
            /\ TargetsZeroPadded
            /\ T % r = 0
            /\ T >= LongestMel
            /\ \A m \in LongestMel..(T - 1) : m % r # 0

\* C1 as amended: collate_fn zero-pads every mel and every linear target of
\* the batch to one length T, the smallest multiple of r that is not below
\* the longest mel target length plus one.
C1_NearestMultipleNotBelowLongestPlusOne ==
    bpc = "collated" =>
        \E T \in 0..(LongestMel + r) :
            /\ CommonLength(T)
            /\ TargetsZeroPadded
            /\ T % r = 0
            /\ T >= LongestMel + 1
            /\ \A m \in (LongestMel + 1)..(T - 1) : m % r # 0

\* C1 witness: a batch of several targets whose longest length is already a
\* multiple of r > 1 has been collated.
C1_Witness ==
    /\ bpc = "collated"
    /\ Len(batch) > 1
    /\ r > 1
    /\ LongestMel % r = 0
    /\ \E i \in DOMAIN batch : Len(batch[i].mel) < LongestMel

\* C7: with L the longest mel length, the common padded length T satisfies
\* L < T <= L + r and T % r = 0, every target gains at least one frame, and
\* every frame at or beyond a target's original length is zero.
C7_AtLeastOneZeroFrame ==
    bpc = "collated" =>
        LET T == Len(mel_batch[1]) IN
        /\ CommonLength(T)
        /\ LongestMel < T
        /\ T <= LongestMel + r
        /\ T % r = 0
        /\ \A i \in DOMAIN batch :
            /\ Len(mel_batch[i]) > Len(batch[i].mel)
            /\ Len(y_batch[i]) > Len(batch[i].lin)
            /\ \A j \in (Len(batch[i].mel) + 1)..T : mel_batch[i][j] = 0
            /\ \A j \in (Len(batch[i].lin) + 1)..T : y_batch[i][j] = 0
            /\ \A j \in 1..Len(batch[i].mel) : mel_batch[i][j] = batch[i].mel[j]
            /\ \A j \in 1..Len(batch[i].lin) : y_batch[i][j] = batch[i].lin[j]

\* C7 witness: the longest target of a collated batch gained exactly one
\* frame, a shorter one more than one.
C7_Witness ==
    /\ bpc = "collated"
    /\ \E i, k \in DOMAIN batch :
        /\ Len(batch[i].mel) = LongestMel
        /\ Len(mel_batch[i]) = LongestMel + 1
        /\ Len(batch[k].lin) < LongestMel

\* C2: the lengths fed to the model are non-increasing and are the batch's
\* input lengths under a permutation, and row i of x, mel and y is the
\* padded text, mel target and linear target of the one sample that
\* permutation puts at i, whose text length is sorted_lengths[i].
C2_SortedSamePermutation ==
    bpc = "fed" =>
        LET n == Len(batch) IN
        /\ Len(sorted_lengths) = n
        /\ \A i \in 1..(n - 1) : sorted_lengths[i] >= sorted_lengths[i + 1]
        /\ \E p \in [1..n -> 1..n] :
            /\ IsPermutation(p, n)
            /\ \A i \in 1..n :
                /\ sorted_lengths[i] = Len(batch[p[i]].text)
                /\ sorted_lengths[i] = input_lengths[p[i]]
                /\ SubSeq(x[i], 1, sorted_lengths[i]) = batch[p[i]].text
                /\ ZeroPadded(x[i], batch[p[i]].text)
                /\ ZeroPadded(mel[i], batch[p[i]].mel)
                /\ ZeroPadded(y[i], batch[p[i]].lin)
        /\ Len(x) = n /\ Len(mel) = n /\ Len(y) = n

\* C2 witness: a batch whose first sample is not its longest has been
\* sorted and fed, so rows have moved.
C2_Witness ==
    /\ bpc = "fed"
    /\ Len(batch) >= 2
    /\ indices[1] # 1
    /\ Len(batch[1].text) < sorted_lengths[1]
    /\ Len(batch[indices[1]].mel) # Len(batch[1].mel)

-----------------------------------------------------------------------------
(* Properties of the schedule, under SpecLR.                                *)

One == <<1, 1>>

\* C3: with step = global_step + 1, the rate is init_lr * step / 6000 while
\* step <= 6000 and strictly increasing there, init_lr * sqrt(6000 / step)
\* once step >= 6000 and strictly decreasing there; it is positive, never
\* above init_lr, and equal to init_lr at global_step 5999 only.
C3_WarmupSchedule ==
    pc = "lr_done" =>
        LET step == global_step + 1
            next_lr == _learning_rate_decay(init_lr, global_step + 1)
        IN
        /\ current_lr.init = init_lr
        /\ step <= 6000 => current_lr.sq = Rat(step * step, 6000 * 6000)
        /\ step >= 6000 => current_lr.sq = Rat(6000, step)
        /\ step + 1 <= 6000 => LrLess(current_lr, next_lr)
        /\ step >= 6000 => LrLess(next_lr, current_lr)
        /\ current_lr.init > 0 /\ current_lr.sq[1] > 0 /\ current_lr.sq[2] > 0
        /\ ~RatLess(One, current_lr.sq)
        /\ (current_lr.sq = One) <=> (global_step = 5999)

\* C3 witness: the schedule has been applied past its peak.
C3_Witness ==
    /\ pc = "lr_done"
    /\ global_step = 6049
    /\ current_lr.sq = <<120, 121>>

-----------------------------------------------------------------------------
(* Properties of the process life cycle, under Spec and FairSpec.           *)

Did(e) == \E i \in DOMAIN iter_log : iter_log[i] = e

IsSaveEvent(e) == e \in {"save_states", "save_checkpoint", "update"}

C5_SaveResumeRoundTrip ==
    /\ [][(pc = "save_checkpoint" /\ pc' = "update") =>
            (/\ global_step \in DOMAIN disk'
             /\ disk'[global_step].state_dict = model
             /\ disk'[global_step].optimizer = optimizer
             /\ disk'[global_step].global_step = global_step
             /\ disk'[global_step].global_epoch = global_epoch)]_vars
    /\ [](pc = "main" /\ loaded # {} =>
            \E k \in DOMAIN disk :
                /\ loaded = {disk[k]}
                /\ global_step = disk[k].global_step
                /\ global_epoch = disk[k].global_epoch
                /\ model = disk[k].state_dict
                /\ optimizer = disk[k].optimizer)

\* C5 witness: a process has loaded a checkpoint of step 3 and epoch 1 and
\* is about to call train.
C5_Witness ==
    /\ pc = "main"
    /\ loaded # {}
    /\ global_step = 3
    /\ global_epoch = 1
    /\ model.updates = 3
    /\ optimizer.t = 3

\* C6: every checkpoint file stores a global_step equal to the number of
\* optimizer updates applied to the model state it stores, and is named
\* after that step.
C6_StepCountsUpdates ==
    \A k \in DOMAIN disk :
        /\ disk[k].global_step = disk[k].state_dict.updates
        /\ disk[k].global_step = disk[k].optimizer.t
        /\ k = disk[k].global_step

\* C6 witness: a resumed process has written a checkpoint of a later step
\* than the one it loaded.
C6_Witness ==
    /\ loaded # {}
    /\ \E c \in loaded, f \in written :
        /\ f.data.global_step > c.global_step
        /\ f.name \in DOMAIN disk
        /\ disk[f.name] = f.data

\* C8: from the decay of an iteration to its update the learning rate of
\* the param group is _learning_rate_decay(init_lr, global_step), the
\* update is made with that rate, and the decay precedes the update.
C8_RateSetBeforeUpdate ==
    /\ pc \in {"forward", "save_states", "save_checkpoint", "update"} =>
        /\ optimizer.lr = _learning_rate_decay(init_lr, global_step)
        /\ iter_log[1] = "lr"
    /\ pc = "incr" =>
        /\ model.lr = _learning_rate_decay(init_lr, global_step)
        /\ current_lr = _learning_rate_decay(init_lr, global_step)
        /\ global_step = s0 + nupdates - 1

\* C8 witness: a resumed process whose init_lr differs from the one the
\* loaded optimizer state was saved with has made an update.
C8_Witness ==
    /\ pc = "incr"
    /\ \E c \in loaded :
        /\ c.optimizer.lr.init # init_lr
        /\ global_step = c.global_step
        /\ c.global_step > 0

Max0(n) == IF n > 0 THEN n ELSE 0

C9_WitnessNoPass ==
    /\ pc = "returned"
    /\ e0 >= nepochs
    /\ e0 > 0

LeftBetweenSaveAndUpdate == Did("save_checkpoint") /\ ~Did("update")

====
